---------------------------- MODULE Spec2Model ----------------------------
(***************************************************************************)
(* A model of the voice agent's deterministic core: the intent router,     *)
(* the tool dispatcher, the answer composer, the output verifier, the      *)
(* arithmetic normalizer/evaluator and the note store, together with the   *)
(* LangGraph pipeline that build_graph wires up.                           *)
(*                                                                         *)
(* Python strings are TLA+ strings; a character is a string of length 1.   *)
(* Indices returned by operators named after Python methods are 0-based,   *)
(* as in the source.  Non-ASCII punctuation of the source (the curly       *)
(* apostrophe and curly quotes of the composer's sentences) is written     *)
(* with the ASCII apostrophe and double quote.                             *)
(***************************************************************************)
EXTENDS Integers, Sequences, FiniteSets, TLC

VARIABLES
    notes,     \* tools/notes.py: _NOTES, the process-wide list of notes
    state,     \* agent/graph.py: the State mapping of the turn in progress
    active,    \* the graph nodes scheduled for the next superstep of graph.invoke
    ran,       \* the sets of nodes run by the supersteps of this turn, in order
    notes0,    \* _NOTES as it was when the turn in progress was invoked
    call,      \* a direct call of one function: [fn, arg] and, once returned, ret
    log        \* the add_note / list_notes calls made directly, with their returns

vars == <<notes, state, active, ran, notes0, call, log>>

----------------------------------------------------------------------------
(* Python str primitives *)

\* s[i] for a 1-based position i
At(s, i) == SubSeq(s, i, i)

\* the characters str.strip() and the regex class \s remove
WS == {" ", "\t", "\n", "\r"}

RECURSIVE LStripFrom(_, _)
LStripFrom(s, i) ==
    IF i > Len(s) THEN ""
    ELSE IF At(s, i) \in WS THEN LStripFrom(s, i + 1)
    ELSE SubSeq(s, i, Len(s))

\* str.lstrip()
LStrip(s) == LStripFrom(s, 1)

RECURSIVE RStripFrom(_, _)
RStripFrom(s, j) ==
    IF j < 1 THEN ""
    ELSE IF At(s, j) \in WS THEN RStripFrom(s, j - 1)
    ELSE SubSeq(s, 1, j)

\* str.rstrip()
RStrip(s) == RStripFrom(s, Len(s))

\* str.strip()
Strip(s) == IF s = "" THEN "" ELSE LStrip(RStrip(s))

\* the largest element of a non-empty set of integers
MaxOf(S) == CHOOSE x \in S : \A y \in S : y <= x

\* s.rfind(ch, lo, hi) for a single character ch: the highest 0-based index
\* i with lo <= i < hi and s[i] = ch, or -1
RFind(s, ch, lo, hi) ==
    LET top == IF hi < Len(s) THEN hi ELSE Len(s)
        hits == {i \in lo .. (top - 1) : At(s, i + 1) = ch}
    IN  IF hits = {} THEN -1 ELSE MaxOf(hits)

\* s[:n]
Prefix(s, n) == SubSeq(s, 1, IF n < Len(s) THEN n ELSE Len(s))

\* s[n:]
Suffix(s, n) == SubSeq(s, n + 1, Len(s))

\* s.startswith(p)
StartsWith(s, p) == Len(p) <= Len(s) /\ SubSeq(s, 1, Len(p)) = p

----------------------------------------------------------------------------
(* Python re primitives, as far as the patterns of the source use them *)

LOWER == "abcdefghijklmnopqrstuvwxyz"
UPPER == "ABCDEFGHIJKLMNOPQRSTUVWXYZ"
DIGITS == "0123456789"

CharsOf(s) == {At(s, i) : i \in 1 .. Len(s)}

LowerChars == CharsOf(LOWER)
DigitChars == CharsOf(DIGITS)

\* the characters the regex class \w matches
WordChars == LowerChars \cup CharsOf(UPPER) \cup DigitChars \cup {"_"}

\* str.lower() of one character
LowerChar(c) ==
    IF c \in CharsOf(UPPER)
    THEN At(LOWER, CHOOSE i \in 1 .. Len(UPPER) : At(UPPER, i) = c)
    ELSE c

RECURSIVE ConcatRange(_, _, _)
ConcatRange(pieces, lo, hi) ==
    IF lo > hi THEN ""
    ELSE IF lo = hi THEN pieces[lo]
    ELSE LET mid == (lo + hi) \div 2
         IN  ConcatRange(pieces, lo, mid) \o ConcatRange(pieces, mid + 1, hi)

\* "".join(pieces)
Concat(pieces) == ConcatRange(pieces, 1, Len(pieces))

\* str.lower()
Lower(s) == IF s = "" THEN "" ELSE Concat([i \in 1 .. Len(s) |-> LowerChar(At(s, i))])

\* re.sub(r"\s+", " ", s): the first character of a run of blanks becomes a
\* space, the others go
CollapseWs(s) ==
    IF s = "" THEN "" ELSE
    Concat([i \in 1 .. Len(s) |->
              IF At(s, i) \notin WS THEN At(s, i)
              ELSE IF i > 1 /\ At(s, i - 1) \in WS THEN ""
              ELSE " "])

\* the regex assertion \b between the characters at 1-based positions p and p + 1
Boundary(s, p) ==
    LET left == p >= 1 /\ At(s, p) \in WordChars
        right == p < Len(s) /\ At(s, p + 1) \in WordChars
    IN  left # right

\* the literal w occupies s from 1-based position i
MatchAt(s, i, w) ==
    /\ i + Len(w) - 1 <= Len(s)
    /\ SubSeq(s, i, i + Len(w) - 1) = w

\* \bw\b matches s at position i
WordMatchAt(s, i, w) ==
    /\ MatchAt(s, i, w)
    /\ Boundary(s, i - 1)
    /\ Boundary(s, i - 1 + Len(w))

\* the positions at which \b(alts[1]|alts[2]|...)\b matches s
WordMatches(s, alts) ==
    {i \in 1 .. Len(s) : \E k \in DOMAIN alts : WordMatchAt(s, i, alts[k])}

\* re.search(r"\b(alts[1]|alts[2]|...)\b", s) finds a match
WordSearch(s, alts) == WordMatches(s, alts) # {}

\* re.sub(r"\b(alts[1]|alts[2]|...)\b", "", s, count=1): the leftmost match
\* is removed, and at that position the first alternative that fits
WordSubOnce(s, alts) ==
    LET hits == WordMatches(s, alts)
    IN  IF s = "" \/ hits = {} THEN s
        ELSE LET i == CHOOSE x \in hits : \A y \in hits : x <= y
                 k == CHOOSE x \in DOMAIN alts :
                        /\ WordMatchAt(s, i, alts[x])
                        /\ \A y \in DOMAIN alts : WordMatchAt(s, i, alts[y]) => x <= y
             IN  SubSeq(s, 1, i - 1) \o SubSeq(s, i + Len(alts[k]), Len(s))

\* re.search(r"\b\d+\b", s) finds a match: a run of digits with no word
\* character on either side
DigitTokenSearch(s) ==
    \E i \in 1 .. Len(s) : \E j \in i .. Len(s) :
        /\ \A x \in i .. j : At(s, x) \in DigitChars
        /\ Boundary(s, i - 1)
        /\ Boundary(s, j)

\* re.search(r"[+\-*/%]|\*\*", s) finds a match
OperatorSearch(s) == \E i \in 1 .. Len(s) : At(s, i) \in {"+", "-", "*", "/", "%"}

----------------------------------------------------------------------------
(* agent/graph.py: _normalize and router *)

\* _normalize(text)
Normalize(text) == CollapseWs(Lower(Strip(text)))

NEGATION == <<"don't", "do not", "do n't", "never", "no">>
NOTE_TRIGGERS == <<"add note", "add a note", "take a note", "remember to", "note to",
                   "note:", "remind me to">>
LIST_TRIGGERS == <<"list notes", "show notes", "read notes", "what notes", "my notes">>
CALC_TRIGGERS == <<"calculate", "what is", "what's", "how much is", "evaluate",
                   "what about", "how about">>
SEARCH_TRIGGERS == <<"search", "search for", "find", "look up", "lookup", "look for",
                     "tell me about">>

\* state.get("transcript", "")
Transcript(st) == IF "transcript" \in DOMAIN st THEN st.transcript ELSE ""

\* router(state): the updates it returns
router(st) ==
    LET t == Normalize(Transcript(st))
        negation == WordSearch(t, NEGATION)
    IN  IF t = "" THEN [intent |-> "ANSWER"]
        ELSE IF WordSearch(t, NOTE_TRIGGERS) /\ ~negation THEN [intent |-> "NOTES"]
        ELSE IF WordSearch(t, LIST_TRIGGERS) /\ ~negation THEN [intent |-> "NOTES_LIST"]
        ELSE IF (WordSearch(t, CALC_TRIGGERS)
                    \/ (DigitTokenSearch(t) /\ OperatorSearch(t))) /\ ~negation
             THEN [intent |-> "CALC"]
        ELSE IF WordSearch(t, SEARCH_TRIGGERS) /\ ~negation THEN [intent |-> "SEARCH"]
        ELSE [intent |-> "ANSWER"]

----------------------------------------------------------------------------
(* tools/calculator.py *)

\* _ALLOWED
ALLOWED == DigitChars \cup {"+", "-", "*", "/", "(", ")", ".", " ", "%"}

\* _WORD_OPERATORS, in the order the source applies them
WORD_OPERATORS ==
    << <<"plus", "+">>, <<"minus", "-">>, <<"over", "/">>, <<"divided by", "/">>,
       <<"divide by", "/">>, <<"times", "*">>, <<"multiplied by", "*">>,
       <<"multiply by", "*">>, <<"modulo", "%">>, <<"mod", "%">>,
       <<"power of", "**">>, <<"to the power of", "**">>, <<"raised to", "**">> >>

\* _NUM_WORDS
NUM_WORDS ==
    [zero |-> 0, one |-> 1, two |-> 2, three |-> 3, four |-> 4, five |-> 5,
     six |-> 6, seven |-> 7, eight |-> 8, nine |-> 9, ten |-> 10, eleven |-> 11,
     twelve |-> 12, thirteen |-> 13, fourteen |-> 14, fifteen |-> 15,
     sixteen |-> 16, seventeen |-> 17, eighteen |-> 18, nineteen |-> 19,
     twenty |-> 20, thirty |-> 30, forty |-> 40, fifty |-> 50, sixty |-> 60,
     seventy |-> 70, eighty |-> 80, ninety |-> 90]

\* _SCALE_WORDS
SCALE_WORDS == [hundred |-> 100, thousand |-> 1000, million |-> 1000000]

\* _IGNORE_WORDS
IGNORE_WORDS == {"and"}

\* _ALL_NUMBER_WORDS
ALL_NUMBER_WORDS == DOMAIN NUM_WORDS \cup DOMAIN SCALE_WORDS \cup IGNORE_WORDS

RECURSIVE NatStr(_)
NatStr(n) == IF n < 10 THEN At(DIGITS, n + 1) ELSE NatStr(n \div 10) \o At(DIGITS, (n % 10) + 1)

\* str(n) of an int
IntStr(n) == IF n < 0 THEN "-" \o NatStr(-n) ELSE NatStr(n)

RECURSIVE NatOfFrom(_, _, _)
NatOfFrom(s, i, acc) ==
    IF i > Len(s) THEN acc
    ELSE NatOfFrom(s, i + 1,
                   10 * acc + ((CHOOSE d \in 1 .. 10 : At(DIGITS, d) = At(s, i)) - 1))

\* the value of a decimal literal
NatOf(s) == NatOfFrom(s, 1, 0)

RECURSIVE Ascending(_)
\* the elements of a finite set of integers in ascending order
Ascending(S) ==
    IF S = {} THEN <<>>
    ELSE LET least == CHOOSE x \in S : \A y \in S : x <= y
         IN  <<least>> \o Ascending(S \ {least})

\* the word of s that starts at position i: up to the next blank
WordFrom(s, i) ==
    LET stops == {j \in i .. Len(s) : j = Len(s) \/ At(s, j + 1) \in WS}
    IN  SubSeq(s, i, CHOOSE j \in stops : \A x \in stops : j <= x)

\* str.split()
Split(s) ==
    IF s = "" THEN <<>> ELSE
    LET starts == {i \in 1 .. Len(s) :
                      At(s, i) \notin WS /\ (i = 1 \/ At(s, i - 1) \in WS)}
        order == Ascending(starts)
    IN  [k \in DOMAIN order |-> WordFrom(s, order[k])]

RECURSIVE Join(_)
\* " ".join(words)
Join(words) ==
    IF words = <<>> THEN ""
    ELSE IF Len(words) = 1 THEN words[1]
    ELSE words[1] \o " " \o Join(Tail(words))

RECURSIVE WordsToIntFrom(_, _, _, _)
WordsToIntFrom(words, i, total, current) ==
    IF i > Len(words) THEN total + current
    ELSE LET word == words[i]
         IN  IF word \in IGNORE_WORDS THEN WordsToIntFrom(words, i + 1, total, current)
             ELSE IF word \in DOMAIN NUM_WORDS
                  THEN WordsToIntFrom(words, i + 1, total, current + NUM_WORDS[word])
             ELSE LET scale == SCALE_WORDS[word]
                      scaled == (IF current = 0 THEN 1 ELSE current) * scale
                  IN  IF scale >= 1000
                      THEN WordsToIntFrom(words, i + 1, total + scaled, 0)
                      ELSE WordsToIntFrom(words, i + 1, total, scaled)

\* _words_sequence_to_int(words), for words of _ALL_NUMBER_WORDS (the only ones
\* _convert_number_words passes it, so that it never returns None)
words_sequence_to_int(words) == WordsToIntFrom(words, 1, 0, 0)

RECURSIVE ConvertFrom(_, _, _)
ConvertFrom(words, i, seq) ==
    LET flush == IF seq = <<>> THEN <<>> ELSE <<NatStr(words_sequence_to_int(seq))>>
    IN  IF i > Len(words) THEN flush
        ELSE IF words[i] \in ALL_NUMBER_WORDS
             THEN ConvertFrom(words, i + 1, Append(seq, words[i]))
             ELSE flush \o <<words[i]>> \o ConvertFrom(words, i + 1, <<>>)

\* _convert_number_words(expr)
convert_number_words(expr) == Join(ConvertFrom(Split(expr), 1, <<>>))

\* every character of s that is in the set cs replaced by rep
ReplaceChars(s, cs, rep) ==
    IF s = "" THEN "" ELSE
    Concat([i \in 1 .. Len(s) |-> IF At(s, i) \in cs THEN rep ELSE At(s, i)])

\* re.sub(r"\bw\b", rep, s): every match is replaced (no phrase of
\* _WORD_OPERATORS overlaps itself, so no match hides another)
WordSubAll(s, w, rep) ==
    IF s = "" THEN "" ELSE
    LET hits == {i \in 1 .. Len(s) : WordMatchAt(s, i, w)}
    IN  Concat([i \in 1 .. Len(s) |->
                  IF i \in hits THEN rep
                  ELSE IF \E j \in hits : j < i /\ i < j + Len(w) THEN ""
                  ELSE At(s, i)])

RECURSIVE ApplyOperators(_, _)
\* the loop over _WORD_OPERATORS, from its k-th entry on
ApplyOperators(s, k) ==
    IF s = "" \/ k > Len(WORD_OPERATORS) THEN s
    ELSE ApplyOperators(
            WordSubAll(s, WORD_OPERATORS[k][1], " " \o WORD_OPERATORS[k][2] \o " "), k + 1)

\* re.sub(r"[a-z]+", " ", s): the first letter of a run becomes a space, the
\* others go
StripLetters(s) ==
    IF s = "" THEN "" ELSE
    Concat([i \in 1 .. Len(s) |->
              IF At(s, i) \notin LowerChars THEN At(s, i)
              ELSE IF i > 1 /\ At(s, i - 1) \in LowerChars THEN ""
              ELSE " "])

\* _replace_word_operators without the removal of the remaining words
replace_word_operators_keep(expr) ==
    LET lowered == Lower(expr)
        dehyphened == ReplaceChars(lowered, {"-"}, " ")
        unpunctuated == ReplaceChars(dehyphened, {"?", "!", ",", ".", "'"}, "")
        numbered == convert_number_words(unpunctuated)
        symbolic == ApplyOperators(numbered, 1)
    IN  Strip(CollapseWs(symbolic))

\* _replace_word_operators(expr)
replace_word_operators(expr) ==
    LET lowered == Lower(expr)
        dehyphened == ReplaceChars(lowered, {"-"}, " ")
        unpunctuated == ReplaceChars(dehyphened, {"?", "!", ",", ".", "'"}, "")
        numbered == convert_number_words(unpunctuated)
        symbolic == ApplyOperators(numbered, 1)
    IN  Strip(CollapseWs(StripLetters(symbolic)))

RECURSIVE TokensFrom(_, _, _)
\* the tokens the Python tokenizer makes of an expression over ALLOWED: runs of
\* digits, "**", "//" and single characters, blanks skipped
TokensFrom(s, i, num) ==
    LET flush == IF num = "" THEN <<>> ELSE <<num>>
    IN  IF i > Len(s) THEN flush
        ELSE IF At(s, i) \in DigitChars THEN TokensFrom(s, i + 1, num \o At(s, i))
        ELSE IF At(s, i) = " " THEN flush \o TokensFrom(s, i + 1, "")
        ELSE IF i < Len(s) /\ SubSeq(s, i, i + 1) \in {"**", "//"}
             THEN flush \o <<SubSeq(s, i, i + 1)>> \o TokensFrom(s, i + 2, "")
        ELSE flush \o <<At(s, i)>> \o TokensFrom(s, i + 1, "")

Tokens(s) == TokensFrom(s, 1, "")

IsNumber(tok) == At(tok, 1) \in DigitChars

\* a decimal literal Python rejects: leading zeros before a non-zero digit
LeadingZeros(tok) == IsNumber(tok) /\ At(tok, 1) = "0" /\ CharsOf(tok) # {"0"}

RECURSIVE Power(_, _)
Power(a, b) == IF b = 0 THEN 1 ELSE a * Power(a, b - 1)

\* str(exc) of the SyntaxError and ZeroDivisionError that eval raises (the wording
\* is CPython 3.11's; none of them reads "invalid characters")
SYNTAX_ERROR == "invalid syntax (<string>, line 1)"
LEADING_ZEROS_ERROR == "leading zeros in decimal integer literals are not permitted; use an 0o prefix for octal integers (<string>, line 1)"

Raised(msg) == [kind |-> "error", msg |-> msg]
Value(v) == [kind |-> "value", v |-> v]

\* eval(expression, {"__builtins__": None}, {"math": math}) for the expressions
\* of the inputs modelled: a literal, a signed literal, two literals around one
\* integer operator, and the token sequences that cannot start, end or continue
\* an expression.  Anything else is outside the fragment ("unmodelled").
Eval(expression) ==
    LET toks == Tokens(expression)
        n == Len(toks)
        binary == {"+", "-", "*", "%", "//", "**", "/"}
    IN  IF \E i \in 1 .. n : LeadingZeros(toks[i]) THEN Raised(LEADING_ZEROS_ERROR)
        ELSE IF \/ \E i \in 1 .. n - 1 : IsNumber(toks[i]) /\ IsNumber(toks[i + 1])
                \/ toks[1] \in {"*", "/", "%", "**", "//", ")"}
                \/ toks[n] \in binary \cup {"("}
             THEN Raised(SYNTAX_ERROR)
        ELSE IF n = 1 /\ IsNumber(toks[1]) THEN Value(NatOf(toks[1]))
        ELSE IF n = 2 /\ toks[1] \in {"+", "-"} /\ IsNumber(toks[2])
             THEN Value(IF toks[1] = "-" THEN -NatOf(toks[2]) ELSE NatOf(toks[2]))
        ELSE IF n = 3 /\ IsNumber(toks[1]) /\ toks[2] \in binary /\ IsNumber(toks[3])
             THEN LET a == NatOf(toks[1])
                      b == NatOf(toks[3])
                      op == toks[2]
                  IN  IF op = "+" THEN Value(a + b)
                      ELSE IF op = "-" THEN Value(a - b)
                      ELSE IF op = "*" THEN Value(a * b)
                      ELSE IF op = "**" THEN Value(Power(a, b))
                      ELSE IF op = "%"
                           THEN (IF b = 0 THEN Raised("integer modulo by zero")
                                 ELSE Value(a % b))
                      ELSE IF op = "//"
                           THEN (IF b = 0 THEN Raised("integer division or modulo by zero")
                                 ELSE Value(a \div b))
                      ELSE IF b = 0 THEN Raised("division by zero")
                      ELSE [kind |-> "unmodelled"]
        ELSE [kind |-> "unmodelled"]

\* calc(expression): the pair it returns
calc(expression) ==
    LET expr == replace_word_operators(Strip(expression))
    IN  IF expr = "" \/ ~(CharsOf(expr) \subseteq ALLOWED)
        THEN [res |-> [error |-> "invalid characters"], code |-> 400]
        ELSE LET out == Eval(expr)
             IN  IF out.kind = "value" THEN [res |-> [result |-> out.v], code |-> 200]
                 ELSE IF out.kind = "error" THEN [res |-> [error |-> out.msg], code |-> 400]
                 ELSE [res |-> [unmodelled |-> TRUE], code |-> 0]

----------------------------------------------------------------------------
(* tools/notes.py: the operations on a store ns *)

\* add_note appending the text as given, blank or not
add_note_raw(ns, text) ==
    LET appended == Append(ns, text)
    IN  [store |-> appended, ret |-> [ok |-> TRUE, count |-> Len(appended)]]

\* add_note(text): the store it leaves and the value it returns
add_note(ns, text) ==
    LET trimmed == Strip(text)
        appended == IF trimmed # "" THEN Append(ns, trimmed) ELSE ns
    IN  [store |-> appended, ret |-> [ok |-> TRUE, count |-> Len(appended)]]

\* list_notes(): the value it returns
list_notes(ns) == [ok |-> TRUE, count |-> Len(ns), notes |-> ns]

----------------------------------------------------------------------------
(* agent/graph.py: State and verifier *)

\* Python's None, and a value that is not None
None == <<>>
Some(v) == <<v>>

\* state.get(k) is a non-empty string
HasStr(st, k) == k \in DOMAIN st /\ st[k] # ""

\* dict.update: the keys of upd replace those of st
Merge(st, upd) == upd @@ st

SPOKEN_MAX_LEN == 300

\* the text verifier works on: state.get("draft_answer") or state.get("answer") or ""
VerifierInput(st) ==
    IF HasStr(st, "draft_answer") THEN st.draft_answer
    ELSE IF HasStr(st, "answer") THEN st.answer
    ELSE ""

\* SentenceCut with find in place of rfind: the first period, not the last
SentenceCut_first(ans) ==
    LET dots == {i \in 0 .. (SPOKEN_MAX_LEN - 1) : i < Len(ans) /\ At(ans, i + 1) = "."}
    IN  IF dots = {} THEN -1 ELSE CHOOSE i \in dots : \A j \in dots : i <= j

\* the sentence-boundary search of verifier: '.', then '!', then '?'
SentenceCut(ans) ==
    LET dot == RFind(ans, ".", 0, SPOKEN_MAX_LEN)
        bang == RFind(ans, "!", 0, SPOKEN_MAX_LEN)
        what == RFind(ans, "?", 0, SPOKEN_MAX_LEN)
    IN  IF dot # -1 THEN dot ELSE IF bang # -1 THEN bang ELSE what

\* the chunk verifier speaks of an answer longer than SPOKEN_MAX_LEN
Spoken(ans) ==
    LET cut == SentenceCut(ans)
        space_cut == RFind(ans, " ", 0, SPOKEN_MAX_LEN)
    IN  IF cut # -1 /\ cut > 0 THEN Strip(Prefix(ans, cut + 1))
        ELSE IF space_cut # -1 /\ space_cut > 0 THEN Strip(Prefix(ans, space_cut))
        ELSE RStrip(Prefix(ans, SPOKEN_MAX_LEN))

\* verifier keeping the untrimmed text as full_answer
verifier_untrimmed(st) ==
    LET ans == Strip(VerifierInput(st))
        updates == [truncated |-> FALSE, continuation |-> "", full_answer |-> None]
    IN  IF ans = "" THEN Merge(updates, [answer |-> ""])
        ELSE IF Len(ans) <= SPOKEN_MAX_LEN THEN Merge(updates, [answer |-> ans])
        ELSE LET spoken == Spoken(ans)
                 remainder == LStrip(Suffix(ans, Len(spoken)))
             IN  [truncated |-> TRUE, continuation |-> remainder,
                  full_answer |-> Some(VerifierInput(st)), answer |-> spoken]

\* verifier taking the remainder from the budget offset, not from the end of the chunk
verifier_offset(st) ==
    LET ans == Strip(VerifierInput(st))
        updates == [truncated |-> FALSE, continuation |-> "", full_answer |-> None]
    IN  IF ans = "" THEN Merge(updates, [answer |-> ""])
        ELSE IF Len(ans) <= SPOKEN_MAX_LEN THEN Merge(updates, [answer |-> ans])
        ELSE LET spoken == Spoken(ans)
                 remainder == LStrip(Suffix(ans, SPOKEN_MAX_LEN))
             IN  [truncated |-> TRUE, continuation |-> remainder,
                  full_answer |-> Some(ans), answer |-> spoken]

\* verifier(state): the updates it returns
verifier(st) ==
    LET ans == Strip(VerifierInput(st))
        updates == [truncated |-> FALSE, continuation |-> "", full_answer |-> None]
    IN  IF ans = "" THEN Merge(updates, [answer |-> ""])
        ELSE IF Len(ans) <= SPOKEN_MAX_LEN THEN Merge(updates, [answer |-> ans])
        ELSE LET spoken == Spoken(ans)
                 remainder == LStrip(Suffix(ans, Len(spoken)))
             IN  [truncated |-> TRUE, continuation |-> remainder,
                  full_answer |-> Some(ans), answer |-> spoken]

----------------------------------------------------------------------------
(* tools/search.py *)

RECURSIVE StripTrailing(_, _)
\* re.sub of a trailing run of the characters cs by ""
StripTrailing(s, cs) ==
    IF s # "" /\ At(s, Len(s)) \in cs THEN StripTrailing(SubSeq(s, 1, Len(s) - 1), cs) ELSE s

PREFIXES == <<"search ", "search for ", "wiki ", "wikipedia ", "lookup ", "look up ",
              "tell me about ">>

\* parse_topic(transcript)
parse_topic(transcript) ==
    LET t == Strip(transcript)
        lowers == Lower(t)
        hits == {k \in DOMAIN PREFIXES : StartsWith(lowers, PREFIXES[k])}
        topic == IF hits = {} THEN t
                 ELSE Suffix(t, Len(PREFIXES[CHOOSE k \in hits : \A j \in hits : k <= j]))
    IN  CollapseWs(Strip(StripTrailing(topic, {".", "!", "?"})))

\* what the request of wiki_summary can come to: a page with an extract, a
\* reply without one, a reply that is not ok, an exception of requests
\* an extract of 348 characters, longer than an answer may be
LongExtract ==
    LET s1 == "She wrote the first program. "
        s4 == s1 \o s1 \o s1 \o s1
    IN  s4 \o s4 \o s4

WikiOutcomes ==
    {[kind |-> "page", title |-> "Ada Lovelace",
      extract |-> "English mathematician.\nShe wrote the first program!"],
     [kind |-> "page", title |-> "Ada Lovelace", extract |-> LongExtract],
     [kind |-> "no_extract"], [kind |-> "not_ok"], [kind |-> "exception"]}

\* wiki_summary(raw_topic) when the request comes to outcome w
wiki_summary(raw_topic, w) ==
    IF parse_topic(raw_topic) = "" THEN <<>>
    ELSE IF w.kind = "page" THEN <<[title |-> w.title, summary |-> w.extract]>>
    ELSE <<>>

----------------------------------------------------------------------------
(* agent/graph.py: tool_node and answerer *)

\* state.get("intent")
Intent(st) == IF "intent" \in DOMAIN st THEN st.intent ELSE "none"

\* state.get("tool_result") or the empty value: a missing key, None, [] and {}
\* are all falsy, and none has a key or an element
ToolResult(st) == IF "tool_result" \in DOMAIN st THEN st.tool_result ELSE <<>>

SEARCH_STRIP == <<"search for", "search", "look up", "lookup", "find", "look for">>
NOTES_STRIP == <<"add a note", "add note", "take a note", "remember to", "note to",
                 "note:", "remind me to">>
FILLERS == <<"please", "for", "to">>

\* re.sub(r"^\b(please|for|to)\b\s*", "", q)
StripFiller(q) ==
    LET hits == {k \in DOMAIN FILLERS : WordMatchAt(q, 1, FILLERS[k])}
    IN  IF hits = {} THEN q
        ELSE LStrip(Suffix(q, Len(FILLERS[CHOOSE k \in hits : \A j \in hits : k <= j])))

\* the topic tool_node hands to wiki_summary
SearchQuery(t) == Strip(CollapseWs(StripFiller(WordSubOnce(t, SEARCH_STRIP))))

\* the payload tool_node hands to add_note
NotesPayload(t) == Strip(CollapseWs(WordSubOnce(t, NOTES_STRIP)))

\* the expression tool_node hands to calc
CalcExpression(t) ==
    LET stripped == Strip(CollapseWs(StripTrailing(WordSubOnce(t, CALC_TRIGGERS), {"?"})))
    IN  IF stripped # "" THEN stripped ELSE t

\* tool_node running the NOTES tool a second time, as it would if each path into
\* the composer ran the tool again
tool_node_twice(st, ns, w) ==
    LET intent == Intent(st)
        t == Normalize(Transcript(st))
    IN  IF intent = "SEARCH"
        THEN LET q == SearchQuery(t)
             IN  [updates |-> [tool_result |-> IF q # "" THEN wiki_summary(q, w) ELSE <<>>],
                  store |-> ns]
        ELSE IF intent = "NOTES"
        THEN LET payload == NotesPayload(t)
                 done == add_note(add_note(ns, payload).store, payload)
             IN  IF payload # ""
                 THEN [updates |-> [tool_result |-> done.ret], store |-> done.store]
                 ELSE [updates |-> [tool_result |-> [ok |-> FALSE, count |-> 0]],
                       store |-> ns]
        ELSE IF intent = "NOTES_LIST"
        THEN [updates |-> [tool_result |-> list_notes(ns)], store |-> ns]
        ELSE IF intent = "CALC"
        THEN LET out == calc(CalcExpression(t))
             IN  [updates |-> [tool_result |-> out.res, calc_status |-> out.code],
                  store |-> ns]
        ELSE [updates |-> [tool_result |-> <<>>], store |-> ns]

\* tool_node(state) on the store ns, the request of wiki_summary coming to w:
\* the updates it returns and the store it leaves
tool_node(st, ns, w) ==
    LET intent == Intent(st)
        t == Normalize(Transcript(st))
    IN  IF intent = "SEARCH"
        THEN LET q == SearchQuery(t)
             IN  [updates |-> [tool_result |-> IF q # "" THEN wiki_summary(q, w) ELSE <<>>],
                  store |-> ns]
        ELSE IF intent = "NOTES"
        THEN LET payload == NotesPayload(t)
                 done == add_note(ns, payload)
             IN  IF payload # ""
                 THEN [updates |-> [tool_result |-> done.ret], store |-> done.store]
                 ELSE [updates |-> [tool_result |-> [ok |-> FALSE, count |-> 0]],
                       store |-> ns]
        ELSE IF intent = "NOTES_LIST"
        THEN [updates |-> [tool_result |-> list_notes(ns)], store |-> ns]
        ELSE IF intent = "CALC"
        THEN LET out == calc(CalcExpression(t))
             IN  [updates |-> [tool_result |-> out.res, calc_status |-> out.code],
                  store |-> ns]
        ELSE [updates |-> [tool_result |-> <<>>], store |-> ns]

\* one line of the SEARCH answer
SnippetLine(snip) ==
    LET summary == ReplaceChars(snip.summary, {"\n"}, " ")
        short == IF Len(summary) > 400 THEN RStrip(Prefix(summary, 397)) \o "..."
                 ELSE summary
    IN  snip.title \o ": " \o short

RECURSIVE JoinWith(_, _)
\* sep.join(lines)
JoinWith(lines, sep) ==
    IF lines = <<>> THEN ""
    ELSE IF Len(lines) = 1 THEN lines[1]
    ELSE lines[1] \o sep \o JoinWith(Tail(lines), sep)

\* seq[:n]
Take(seq, n) == SubSeq(seq, 1, IF n < Len(seq) THEN n ELSE Len(seq))

\* the result of calc as the answer's f-string prints it
ResultStr(tr) == IntStr(tr.result)

\* answerer(state): the updates it returns
answerer(st) ==
    LET intent == Intent(st)
        tr == ToolResult(st)
    IN  IF intent = "SEARCH"
        THEN IF tr = <<>>
             THEN [draft_answer |->
                    "I couldn't find anything solid on that topic. Try rephrasing it for me."]
             ELSE LET shown == Take(tr, 2)
                      lines == [i \in DOMAIN shown |-> SnippetLine(shown[i])]
                  IN  [draft_answer |-> "Here's what I found.\n" \o JoinWith(lines, "\n")]
        ELSE IF intent = "NOTES"
        THEN IF "ok" \in DOMAIN tr /\ tr.ok
             THEN LET count == IF "count" \in DOMAIN tr THEN tr.count ELSE 0
                      plural == IF count = 1 THEN "note" ELSE "notes"
                  IN  [draft_answer |-> "Got it. I'll remember that. You now have "
                                          \o IntStr(count) \o " " \o plural \o "."]
             ELSE [draft_answer |-> "I couldn't save that note. Please try again."]
        ELSE IF intent = "NOTES_LIST"
        THEN LET stored == IF "notes" \in DOMAIN tr THEN tr.notes ELSE <<>>
                 count == IF "count" \in DOMAIN tr THEN tr.count ELSE Len(stored)
             IN  IF stored = <<>>
                 THEN [draft_answer |->
                        "You don't have any notes yet. Just ask me to remember something."]
                 ELSE LET shown == Take(stored, 5)
                          lines == [i \in DOMAIN shown |->
                                      "Note " \o IntStr(i) \o ": " \o shown[i] \o "."]
                          remaining == count - Len(lines)
                          tail == IF remaining > 0
                                  THEN " I'm tracking " \o IntStr(remaining) \o " more."
                                  ELSE ""
                      IN  [draft_answer |-> "Here's what you asked me to remember. "
                                              \o JoinWith(lines, " ") \o tail]
        ELSE IF intent = "CALC"
        THEN IF "calc_status" \in DOMAIN st /\ st.calc_status = 200 /\ "result" \in DOMAIN tr
             THEN [draft_answer |-> "The answer is " \o ResultStr(tr) \o "."]
             ELSE LET err == IF "error" \in DOMAIN tr /\ tr.error # "" THEN tr.error
                             ELSE "invalid expression or unsupported characters"
                  IN  [draft_answer |-> "I couldn't work that out because " \o err \o "."]
        ELSE LET clean == Strip(Transcript(st))
             IN  IF clean # "" THEN [draft_answer |-> "You said \"" \o clean \o ".\""]
                 ELSE [draft_answer |-> "I didn't catch that."]

----------------------------------------------------------------------------
(* agent/graph.py: build_graph, and graph.invoke as LangGraph runs it *)

NODES == {"detect_intent", "dispatch_tool", "compose_answer", "verify_answer"}

\* the edges without dispatch_tool -> compose_answer: the composer is scheduled
\* by the router only
EDGES_router_only == {<<"detect_intent", "dispatch_tool">>,
                      <<"detect_intent", "compose_answer">>,
                      <<"compose_answer", "verify_answer">>}

\* the edges added with add_edge, the one to END left out
EDGES == {<<"detect_intent", "dispatch_tool">>, <<"detect_intent", "compose_answer">>,
          <<"dispatch_tool", "compose_answer">>, <<"compose_answer", "verify_answer">>}

\* the nodes an edge leads to from a node that ran: each is scheduled for the
\* next superstep, whether or not its other predecessors ran
Triggered(done) == {n \in NODES : \E d \in done : <<d, n>> \in EDGES}

\* the updates of the node n run on the snapshot st
NodeUpdates(n, st, ns, w) ==
    IF n = "detect_intent" THEN router(st)
    ELSE IF n = "dispatch_tool" THEN tool_node(st, ns, w).updates
    ELSE IF n = "compose_answer" THEN answerer(st)
    ELSE verifier(st)

\* the updates of all the nodes of a superstep: they write different keys
StepUpdates(nodes, st, ns, w) ==
    LET on(n) == IF n \in nodes THEN NodeUpdates(n, st, ns, w) ELSE <<>>
    IN  on("detect_intent") @@ on("dispatch_tool") @@ on("compose_answer")
            @@ on("verify_answer")

----------------------------------------------------------------------------
(* The drafts the verifier is exercised on *)

\* how far past SPOKEN_MAX_LEN the drafts reach
MaxOver == 3

RECURSIVE Repeat(_, _)
Repeat(s, n) ==
    IF n <= 0 THEN ""
    ELSE LET half == Repeat(s, n \div 2)
         IN  IF n % 2 = 0 THEN half \o half ELSE half \o half \o s

Filler == Repeat("a", SPOKEN_MAX_LEN + MaxOver + 1)
Fill(n) == SubSeq(Filler, 1, n)

\* a draft of length n, all 'a' but for c1 at index p1 and c2 at index p2 (p1 < p2 < n)
Draft(n, p1, c1, p2, c2) ==
    Fill(p1) \o c1 \o Fill(p2 - p1 - 1) \o c2 \o Fill(n - p2 - 1)

DraftLens == (SPOKEN_MAX_LEN - 1) .. (SPOKEN_MAX_LEN + MaxOver)
DraftPos == {0, 1, SPOKEN_MAX_LEN \div 2, SPOKEN_MAX_LEN - 2, SPOKEN_MAX_LEN - 1,
             SPOKEN_MAX_LEN, SPOKEN_MAX_LEN + 1}
DraftChars == {".", "!", "?", " ", "\n", "a"}

DraftPairs(n) == {pp \in DraftPos \X DraftPos : pp[1] < pp[2] /\ pp[2] < n}

Drafts ==
    UNION {{Draft(n, pp[1], c1, pp[2], c2) :
                pp \in DraftPairs(n), c1 \in DraftChars, c2 \in DraftChars} :
            n \in DraftLens}
    \cup {"", "  ", " ok. ", "Fine!"}

\* the states handed to verifier: by the graph (draft_answer set by the composer),
\* by api/main.py (draft_answer alone) or with only an earlier answer
VerifierStates ==
    {[draft_answer |-> d] : d \in Drafts}
    \cup {[answer |-> Draft(n, 1, c, SPOKEN_MAX_LEN - 1, " ")] :
            n \in DraftLens, c \in DraftChars}
    \cup {[draft_answer |-> "", answer |-> Draft(n, 1, c, SPOKEN_MAX_LEN - 1, " ")] :
            n \in DraftLens, c \in DraftChars}
    \cup {[transcript |-> "hi"]}

----------------------------------------------------------------------------
(* Direct calls of one function *)

Idle == [fn |-> "none"]

Returned == "ret" \in DOMAIN call

InitRest ==
    /\ notes = <<>>
    /\ state = <<>>
    /\ active = {}
    /\ ran = <<>>
    /\ notes0 = <<>>
    /\ log = <<>>

InitVerifier ==
    /\ call \in {[fn |-> "verifier", arg |-> st] : st \in VerifierStates}
    /\ InitRest

\* verifier(arg) returns
VerifierCall ==
    /\ call.fn = "verifier"
    /\ ~Returned
    /\ call' = Merge(call, [ret |-> verifier(call.arg)])
    /\ UNCHANGED <<notes, state, active, ran, notes0, log>>

NextVerifier == VerifierCall

SpecVerifier == InitVerifier /\ [][NextVerifier]_vars

----------------------------------------------------------------------------
(* Direct calls of router *)

LEAD == <<"please ", "Xnote ", "don't ", "never ", "I know ", "no ", "do not ",
          "do n't ">>
TAIL == <<" call  mom", " 2 + 2", "s now", "book", " no 7", "?", ": x">>
PHRASES == NOTE_TRIGGERS \o LIST_TRIGGERS \o CALC_TRIGGERS \o SEARCH_TRIGGERS
              \o <<"hello", "", "3 * 4", "catalog", "NOTE:", "Add  A\tNote">>

\* the transcripts router is exercised on: a phrase, alone or with text
\* before it, after it or both
RouterTranscripts ==
    {lead \o PHRASES[k] \o tail :
        lead \in {""} \cup {LEAD[i] : i \in DOMAIN LEAD},
        k \in DOMAIN PHRASES,
        tail \in {""} \cup {TAIL[i] : i \in DOMAIN TAIL}}

InitRouter ==
    /\ call \in {[fn |-> "router", arg |-> [transcript |-> t]] : t \in RouterTranscripts}
    /\ InitRest

\* router(arg) returns
RouterCall ==
    /\ call.fn = "router"
    /\ ~Returned
    /\ call' = Merge(call, [ret |-> router(call.arg)])
    /\ UNCHANGED <<notes, state, active, ran, notes0, log>>

NextRouter == RouterCall

SpecRouter == InitRouter /\ [][NextRouter]_vars

----------------------------------------------------------------------------
(* Direct calls of calc and of _replace_word_operators *)

OPERANDS == <<"14", "seven", "three hundred and five", "0", "x", "2.5", "$5", "Twenty-one",
              "one thousand two hundred", "and", "#1", "b:2", "007">>
OPERATORS == <<"plus", "+", "-", "minus", "times", "=", "mod", "modulo", "//", "%">>

\* the expressions calc is exercised on
CalcInputs ==
    {OPERANDS[i] \o " " \o OPERATORS[k] \o " " \o OPERANDS[j] :
        i \in DOMAIN OPERANDS, k \in DOMAIN OPERATORS, j \in {1, 2, 4, 5}}
    \cup {OPERANDS[i] : i \in DOMAIN OPERANDS}
    \cup {"rm -rf /", "ls -la", "", "  ", "2 = 2", "what's 9 times 8?", "9 8", "-3",
          "drop * now", "a % b", "import os; os.system('x')", "__import__", "4 over 0",
          "14 divided by 0", "x over y",
          "2 to the power of 3", "2 raised to 10", "three power of two", "2 ** 5"}

InitCalc ==
    /\ call \in {[fn |-> f, arg |-> e] :
                    f \in {"calc", "_replace_word_operators"}, e \in CalcInputs}
    /\ InitRest

\* calc(arg) returns
CalcCall ==
    /\ call.fn = "calc"
    /\ ~Returned
    /\ call' = Merge(call, [ret |-> calc(call.arg)])
    /\ UNCHANGED <<notes, state, active, ran, notes0, log>>

\* _replace_word_operators(arg) returns
NormalizerCall ==
    /\ call.fn = "_replace_word_operators"
    /\ ~Returned
    /\ call' = Merge(call, [ret |-> replace_word_operators(call.arg)])
    /\ UNCHANGED <<notes, state, active, ran, notes0, log>>

NextCalc == CalcCall \/ NormalizerCall

SpecCalc == InitCalc /\ [][NextCalc]_vars

\* every expression of the inputs is inside the fragment Eval models
EvalModelled ==
    (call.fn = "calc" /\ Returned) => call.ret.code # 0

----------------------------------------------------------------------------
(* Direct calls of add_note and list_notes *)

\* the number of calls made on the store
MaxCalls == 4

NoteTexts == {"", "  ", "milk", " call mom\n", "milk ", "\t"}

InitNotes ==
    /\ call = Idle
    /\ InitRest

\* add_note(text) is called and returns
AddNote(text) ==
    /\ Len(log) < MaxCalls
    /\ LET done == add_note(notes, text)
       IN  /\ notes' = done.store
           /\ log' = Append(log, [fn |-> "add_note", arg |-> text, ret |-> done.ret])
    /\ UNCHANGED <<state, active, ran, notes0, call>>

\* list_notes() is called and returns
ListNotes ==
    /\ Len(log) < MaxCalls
    /\ log' = Append(log, [fn |-> "list_notes", arg |-> "", ret |-> list_notes(notes)])
    /\ UNCHANGED <<notes, state, active, ran, notes0, call>>

NextNotes ==
    \/ \E text \in NoteTexts : AddNote(text)
    \/ ListNotes

SpecNotes == InitNotes /\ [][NextNotes]_vars

----------------------------------------------------------------------------
(* add_note and list_notes called from concurrent threads *)

\* the number of threads
MaxThreads == 2

THREADS == 1 .. MaxThreads

\* what a thread calls: add_note(text), or list_notes()
ThreadOps ==
    {[fn |-> "add_note", arg |-> text, pc |-> "append"] : text \in {"milk", " eggs ", "  "}}
        \cup {[fn |-> "list_notes", arg |-> "", pc |-> "count"]}

\* each thread is about to make one call; the store is empty
InitThreads ==
    /\ call \in {[fn |-> "threads", th |-> f] : f \in [THREADS -> ThreadOps]}
    /\ InitRest

Thread(t) == call.th[t]

\* the thread t goes on as the record upd says
ThreadStep(t, upd) == [call EXCEPT !.th[t] = Merge(@, upd)]

\* add_note, lines 5-7: text = text.strip(); if text: _NOTES.append(text).
\* at is the size of the store right after the append
ThreadAppend(t) ==
    /\ call.fn = "threads"
    /\ Thread(t).pc = "append"
    /\ LET text == Strip(Thread(t).arg)
       IN  IF text # ""
           THEN /\ notes' = Append(notes, text)
                /\ call' = ThreadStep(t, [pc |-> "len", at |-> Len(notes) + 1])
           ELSE /\ notes' = notes
                /\ call' = ThreadStep(t, [pc |-> "len"])
    /\ UNCHANGED <<state, active, ran, notes0, log>>

\* add_note, line 8: return {"ok": True, "count": len(_NOTES)}
ThreadLen(t) ==
    /\ call.fn = "threads"
    /\ Thread(t).pc = "len"
    /\ call' = ThreadStep(t, [pc |-> "done", ret |-> [ok |-> TRUE, count |-> Len(notes)]])
    /\ UNCHANGED <<notes, state, active, ran, notes0, log>>

\* list_notes, line 12, first half: "count": len(_NOTES)
ThreadCount(t) ==
    /\ call.fn = "threads"
    /\ Thread(t).pc = "count"
    /\ call' = ThreadStep(t, [pc |-> "copy", count |-> Len(notes)])
    /\ UNCHANGED <<notes, state, active, ran, notes0, log>>

\* list_notes, line 12, second half: "notes": list(_NOTES), and the return
ThreadCopy(t) ==
    /\ call.fn = "threads"
    /\ Thread(t).pc = "copy"
    /\ call' = ThreadStep(t, [pc |-> "done",
                              ret |-> [ok |-> TRUE, count |-> Thread(t).count, notes |-> notes]])
    /\ UNCHANGED <<notes, state, active, ran, notes0, log>>

NextThreads ==
    \E t \in THREADS :
        \/ ThreadAppend(t)
        \/ ThreadLen(t)
        \/ ThreadCount(t)
        \/ ThreadCopy(t)

SpecThreads == InitThreads /\ [][NextThreads]_vars

----------------------------------------------------------------------------
(* Turns of the agent: graph.invoke({"transcript": t}) *)

\* no turn is invoked on a store of this many notes
MaxNotes == 2

NUMERALS == <<"0", "9", "8", "14">>
SPOKEN_OPS == <<"plus", "minus", "times", "modulo">>
SYMBOL_OPS == <<"+", "-", "*", "%">>

\* "what is A OP B"
WhatIs(a, op, b) == "what is " \o a \o " " \o op \o " " \o b

CalcTranscripts ==
    {WhatIs(NUMERALS[i], op, NUMERALS[j]) :
        i \in DOMAIN NUMERALS, j \in DOMAIN NUMERALS,
        op \in {SPOKEN_OPS[k] : k \in DOMAIN SPOKEN_OPS}
                \cup {SYMBOL_OPS[k] : k \in DOMAIN SYMBOL_OPS}}

Transcripts ==
    CalcTranscripts
    \cup {"add a note call mom tomorrow", "add a note", "Remind me to  buy milk",
          "take a note ", "note:milk", "note: call mom", "don't add a note x",
          "list notes", "show notes please", "search Ada Lovelace", "search",
          "please find for Ada", "tell me about ada", "just saying hi", "", "  ",
          "What's fourteen plus seven?", "calculate", "rm -rf /", "9 8 +"}

Init ==
    /\ call = Idle
    /\ InitRest

\* graph.invoke({"transcript": t}) starts: the entry point is scheduled
Invoke(t) ==
    /\ active = {}
    /\ Len(notes) < MaxNotes
    /\ state' = [transcript |-> t]
    /\ active' = {"detect_intent"}
    /\ ran' = <<>>
    /\ notes0' = notes
    /\ UNCHANGED <<notes, call, log>>

\* one superstep: every scheduled node runs on the state as the step found it,
\* their updates are written together, and the nodes their edges lead to are
\* scheduled; w is what a request of wiki_summary comes to
Superstep(w) ==
    /\ active # {}
    /\ state' = Merge(state, StepUpdates(active, state, notes, w))
    /\ notes' = IF "dispatch_tool" \in active THEN tool_node(state, notes, w).store ELSE notes
    /\ ran' = Append(ran, active)
    /\ active' = Triggered(active)
    /\ UNCHANGED <<notes0, call, log>>

Next ==
    \/ \E t \in Transcripts : Invoke(t)
    \/ \E w \in WikiOutcomes : Superstep(w)

Spec == Init /\ [][Next]_vars

\* graph.invoke has returned: state is the turn's final state
TurnDone == active = {} /\ ran # <<>>

----------------------------------------------------------------------------
(* tts/synth.py: tts_to_wav_bytes, called by api/main.py: tts_endpoint *)

\* the largest retries argument of the calls
MaxRetries == 1

TTS_DEFAULT_TEXT == "There is no text for me to speak."

RuntimeError(msg) == [kind |-> "RuntimeError", msg |-> msg]

\* what requests.post can come to: a RequestException, or a response, ok or not
PostOutcomes ==
    {[kind |-> "exception", exc |-> "ConnectionError"],
     [kind |-> "exception", exc |-> "ReadTimeout"],
     [kind |-> "response", ok |-> TRUE, status_code |-> 200, body |-> "RIFF0000WAVE"],
     [kind |-> "response", ok |-> FALSE, status_code |-> 401, body |-> "unauthorized"],
     [kind |-> "response", ok |-> FALSE, status_code |-> 429, body |-> "quota exceeded"],
     [kind |-> "response", ok |-> FALSE, status_code |-> 500, body |-> ""]}

\* _tts_or_error: what the endpoint makes of the return or raise of
\* tts_to_wav_bytes
tts_or_error(ret) ==
    IF ret.kind = "bytes" THEN [status |-> 200, body |-> ret.content]
    ELSE IF ret.kind = "RuntimeError"
    THEN [status |-> 503, detail |-> "TTS service unavailable: " \o ret.msg]
    ELSE [status |-> 500, detail |-> "Unexpected TTS failure"]

\* the loop body with a retry after a response that is not ok as well
AfterPost_retry_http(o, attempt, retries) ==
    IF o.kind = "exception" \/ ~o.ok
    THEN IF attempt < retries
         THEN [pc |-> "backoff"]
         ELSE [pc |-> "done",
               ret |-> RuntimeError("Network error contacting ElevenLabs TTS: " \o o.kind)]
    ELSE [pc |-> "done", ret |-> [kind |-> "bytes", content |-> o.body]]

\* the loop body after requests.post came to o: back off and go round again,
\* raise, or return the content
AfterPost(o, attempt, retries) ==
    IF o.kind = "exception"
    THEN IF attempt < retries
         THEN [pc |-> "backoff"]
         ELSE [pc |-> "done",
               ret |-> RuntimeError("Network error contacting ElevenLabs TTS: " \o o.exc)]
    ELSE IF ~o.ok
    THEN [pc |-> "done",
          ret |-> RuntimeError("ElevenLabs TTS error: " \o NatStr(o.status_code) \o " "
                                  \o Prefix(o.body, 200))]
    ELSE [pc |-> "done", ret |-> [kind |-> "bytes", content |-> o.body]]

\* the call c is over with ret, which _tts_or_error hands on
Finish(c, ret) == Merge(c, [pc |-> "done", ret |-> ret, api |-> tts_or_error(ret)])

\* for attempt in range(retries + 1): the next round, or the code after the loop
LoopOrExit(c, attempt) ==
    IF attempt < c.retries + 1
    THEN Merge(c, [pc |-> "post", attempt |-> attempt])
    ELSE Finish(c, IF c.last_exc # None
                   THEN RuntimeError("ElevenLabs TTS failed after retries: " \o c.last_exc[1])
                   ELSE RuntimeError("ElevenLabs TTS failed for unknown reasons."))

TtsTexts == {"", "  ", "hi", " Hello there. "}

InitTts ==
    /\ call \in {[fn |-> "tts", arg |-> t, retries |-> r, configured |-> c, pc |-> "start",
                  attempt |-> 0, last_exc |-> None, sent |-> <<>>, slept |-> <<>>] :
                    t \in TtsTexts, r \in 0 .. MaxRetries, c \in BOOLEAN}
    /\ InitRest

\* tts_endpoint strips the text; tts_to_wav_bytes checks the configuration,
\* puts the default text for an empty one and enters the loop
TtsStart ==
    /\ call.fn = "tts"
    /\ call.pc = "start"
    /\ LET text == IF Strip(call.arg) = "" THEN TTS_DEFAULT_TEXT ELSE Strip(call.arg)
       IN  call' = IF ~call.configured
                   THEN Finish(call, RuntimeError("ElevenLabs not configured. Set ELEVEN_API_KEY and ELEVEN_VOICE_ID."))
                   ELSE LoopOrExit(Merge(call, [text |-> text]), 0)
    /\ UNCHANGED <<notes, state, active, ran, notes0, log>>

\* one requests.post, which comes to o, and the rest of the loop body up to the
\* sleep, the raise or the return
TtsPost(o) ==
    /\ call.fn = "tts"
    /\ call.pc = "post"
    /\ LET c1 == Merge(call, [sent |-> Append(call.sent, [text |-> call.text, outcome |-> o]),
                              last_exc |-> IF o.kind = "exception" THEN Some(o.exc)
                                           ELSE call.last_exc])
           nxt == AfterPost(o, call.attempt, call.retries)
       IN  call' = IF nxt.pc = "done" THEN Finish(c1, nxt.ret)
                   ELSE Merge(c1, [pc |-> "backoff"])
    /\ UNCHANGED <<notes, state, active, ran, notes0, log>>

\* time.sleep(0.5 * (attempt + 1)), in tenths of a second, and continue
TtsBackoff ==
    /\ call.fn = "tts"
    /\ call.pc = "backoff"
    /\ call' = LoopOrExit(Merge(call, [slept |-> Append(call.slept, 5 * (call.attempt + 1))]),
                          call.attempt + 1)
    /\ UNCHANGED <<notes, state, active, ran, notes0, log>>

NextTts ==
    \/ TtsStart
    \/ \E o \in PostOutcomes : TtsPost(o)
    \/ TtsBackoff

SpecTts == InitTts /\ [][NextTts]_vars

\* the call runs on: a request ends within its timeout and the sleep ends
SpecTtsFair == SpecTts /\ WF_vars(NextTts)

TtsDone == call.pc = "done"

----------------------------------------------------------------------------
(* Claims about a turn, under Spec *)

\* the supersteps of this turn in which the node n ran
RunsOf(n) == {i \in DOMAIN ran : n \in ran[i]}

\* C1: within a turn the stages run strictly in the order detect_intent,
\* dispatch_tool, compose_answer, verify_answer: one stage per step, each stage
\* once, and compose_answer never before dispatch_tool has written tool_result.
C1_StrictStageOrder ==
    /\ \A i \in DOMAIN ran : Cardinality(ran[i]) = 1
    /\ \A n \in NODES : Cardinality(RunsOf(n)) <= 1
    /\ \A i \in RunsOf("compose_answer") : \E j \in RunsOf("dispatch_tool") : j < i
    /\ TurnDone => ran = <<{"detect_intent"}, {"dispatch_tool"}, {"compose_answer"},
                           {"verify_answer"}>>

\* the turn's intent is NOTES and a payload is left once the trigger is stripped
SavesNote == Intent(state) = "NOTES" /\ NotesPayload(Normalize(Transcript(state))) # ""

\* C7: a turn changes the note store only if its intent is NOTES and its payload
\* is not empty; such a turn appends exactly one note, the payload, and its answer
\* starts with "Got it."; every other turn leaves the store as it was.
C7_OneNotePerNotesTurn ==
    LET payload == NotesPayload(Normalize(Transcript(state)))
    IN  /\ notes # notes0 => (SavesNote /\ notes = Append(notes0, payload))
        /\ (TurnDone /\ SavesNote) =>
              /\ notes = Append(notes0, payload)
              /\ Len(notes) = Len(notes0) + 1
              /\ StartsWith(state.answer, "Got it.")
        /\ (TurnDone /\ ~SavesNote) => notes = notes0

\* a finished NOTES turn on a store of one note, in which compose_answer ran twice
C7_Witness ==
    /\ TurnDone
    /\ SavesNote
    /\ Len(notes0) = 1
    /\ Len(notes) = 2
    /\ Cardinality(RunsOf("compose_answer")) = 2
    /\ StartsWith(state.answer, "Got it.")

\* the integer value of a OP b for the k-th operator of SPOKEN_OPS / SYMBOL_OPS
ValueOf(k, a, b) ==
    IF k = 1 THEN a + b ELSE IF k = 2 THEN a - b ELSE IF k = 3 THEN a * b ELSE a % b

\* the finished turn of "what is a OP b" is CALC, with status 200 and the answer
\* "The answer is V."
AnswersValue(a, op, k, b) ==
    (TurnDone /\ state.transcript = WhatIs(a, op, b) /\ ~(k = 4 /\ NatOf(b) = 0)) =>
        /\ state.intent = "CALC"
        /\ "calc_status" \in DOMAIN state
        /\ state.calc_status = 200
        /\ state.answer = "The answer is " \o IntStr(ValueOf(k, NatOf(a), NatOf(b))) \o "."

\* C8: "what is A OP B", with OP spoken (plus, minus, times, modulo) or as its
\* symbol (+, -, *, %) and B not 0 for modulo, is answered "The answer is V."
\* with V the value of A OP B.
C8_WhatIsGivesValue ==
    \A i \in DOMAIN NUMERALS, j \in DOMAIN NUMERALS, k \in DOMAIN SPOKEN_OPS :
        /\ AnswersValue(NUMERALS[i], SPOKEN_OPS[k], k, NUMERALS[j])
        /\ AnswersValue(NUMERALS[i], SYMBOL_OPS[k], k, NUMERALS[j])

\* w in s
Contains(s, w) == \E i \in 1 .. Len(s) : MatchAt(s, i, w)

\* C11: a turn whose transcript is "search <topic>" has the intent SEARCH and a
\* final answer that contains "Sorry" or contains "Here's what I found",
\* whatever the lookup comes to.
C11_SearchAnswerWording ==
    (TurnDone /\ StartsWith(state.transcript, "search ")) =>
        /\ state.intent = "SEARCH"
        /\ \/ Contains(state.answer, "Sorry")
           \/ Contains(state.answer, "Here's what I found")

\* the final state of the four stages run once each, in sequence, on the
\* transcript t, the store ns and the lookup outcome w
Sequential(t, ns, w) ==
    LET s0 == [transcript |-> t]
        s1 == Merge(s0, router(s0))
        s2 == Merge(s1, tool_node(s1, ns, w).updates)
        s3 == Merge(s2, answerer(s2))
    IN  Merge(s3, verifier(s3))

\* the store after the dispatcher of that sequential run
SequentialStore(t, ns, w) ==
    LET s0 == [transcript |-> t]
    IN  tool_node(Merge(s0, router(s0)), ns, w).store

\* C15: when graph.invoke has returned, the turn's final state is the state the
\* four stages give when run once in sequence, for some outcome of the lookup:
\* the answer, truncated, continuation and full_answer are the verifier's output
\* on the draft composed from the dispatcher's tool_result and calc_status.
C15_FinalStateIsSequential ==
    TurnDone =>
        \E w \in WikiOutcomes :
            /\ state = Sequential(state.transcript, notes0, w)
            /\ notes = SequentialStore(state.transcript, notes0, w)

\* a finished SEARCH turn that found a page: the composer first ran without
\* tool_result, and its second draft, with the page, is the one verified
C15_Witness ==
    /\ TurnDone
    /\ Intent(state) = "SEARCH"
    /\ ToolResult(state) # <<>>
    /\ Cardinality(RunsOf("compose_answer")) = 2
    /\ Cardinality(RunsOf("verify_answer")) = 2
    /\ StartsWith(state.answer, "Here's what I found")
    /\ state.truncated
    /\ state.continuation # ""

----------------------------------------------------------------------------
(* Claims about verifier, under SpecVerifier *)

\* the trimmed text a returned verifier call worked on
VDraft == Strip(VerifierInput(call.arg))

VerifierReturned == call.fn = "verifier" /\ Returned

\* C2: the returned envelope has truncated true exactly when continuation is
\* non-empty and full_answer is the trimmed untruncated draft, and when
\* truncated is false continuation is "" and full_answer is None.
C2_Envelope ==
    VerifierReturned =>
        LET r == call.ret
        IN  /\ r.truncated <=> (r.continuation # "" /\ r.full_answer = Some(VDraft))
            /\ ~r.truncated => (r.continuation = "" /\ r.full_answer = None)

\* a truncated envelope of a draft that had whitespace to trim
C2_Witness ==
    /\ VerifierReturned
    /\ call.ret.truncated
    /\ VerifierInput(call.arg) # VDraft

\* the 0-based indices from lo up to SPOKEN_MAX_LEN - 1 at which d has a period
PeriodsFrom(d, lo) ==
    {i \in lo .. (SPOKEN_MAX_LEN - 1) : i < Len(d) /\ At(d, i + 1) = "."}

\* the answer is the prefix of d that ends with its last period among idx, and
\* the continuation is not empty
CutAtLastPeriod(d, idx, r) ==
    /\ r.answer = SubSeq(d, 1, MaxOf(idx) + 1)
    /\ r.continuation # ""

\* C3 as claimed: a draft longer than 300 with a period at any index below 300
\* is cut right after the last such period, with a non-empty continuation.
C3_AnyPeriod ==
    (VerifierReturned /\ Len(VDraft) > SPOKEN_MAX_LEN /\ PeriodsFrom(VDraft, 0) # {})
        => CutAtLastPeriod(VDraft, PeriodsFrom(VDraft, 0), call.ret)

\* C3 as amended: a draft longer than 300 with a period at an index from 1 to
\* 299 is cut right after the last period below 300, with a non-empty
\* continuation.
C3_PeriodAfterStart ==
    (VerifierReturned /\ Len(VDraft) > SPOKEN_MAX_LEN /\ PeriodsFrom(VDraft, 1) # {})
        => CutAtLastPeriod(VDraft, PeriodsFrom(VDraft, 1), call.ret)

\* a long draft with two periods below 300, cut after the second
C3_Witness ==
    /\ VerifierReturned
    /\ Len(VDraft) > SPOKEN_MAX_LEN
    /\ Cardinality(PeriodsFrom(VDraft, 1)) = 2
    /\ call.ret.truncated
    /\ Len(call.ret.answer) = MaxOf(PeriodsFrom(VDraft, 1)) + 1

\* C4: a truncated answer is a prefix of full_answer of at most 300
\* characters, continuation is a suffix of it, and what lies between the two
\* is whitespace only.
C4_Reconstructs ==
    (VerifierReturned /\ call.ret.truncated) =>
        LET full == call.ret.full_answer[1]
            a == call.ret.answer
            c == call.ret.continuation
        IN  /\ full = VDraft
            /\ Len(a) <= SPOKEN_MAX_LEN
            /\ Len(a) + Len(c) <= Len(full)
            /\ SubSeq(full, 1, Len(a)) = a
            /\ SubSeq(full, Len(full) - Len(c) + 1, Len(full)) = c
            /\ \A i \in (Len(a) + 1) .. (Len(full) - Len(c)) : At(full, i) \in WS

\* a hard cut at 300 (no terminator and no space below 300) that dropped
\* whitespace at the boundary
C4_Witness ==
    /\ VerifierReturned
    /\ call.ret.truncated
    /\ SentenceCut(VDraft) = -1
    /\ RFind(VDraft, " ", 0, SPOKEN_MAX_LEN) = -1
    /\ Len(call.ret.answer) + Len(call.ret.continuation) < Len(VDraft)

----------------------------------------------------------------------------
(* Claims about router, under SpecRouter *)

RouterReturned == call.fn = "router" /\ Returned

\* the phrase w stands in t between blanks (or the ends of t)
ContainsPhrase(t, w) ==
    \E i \in 1 .. Len(t) :
        /\ MatchAt(t, i, w)
        /\ (i = 1 \/ At(t, i - 1) = " ")
        /\ (i + Len(w) > Len(t) \/ At(t, i + Len(w)) = " ")

\* C5: a transcript that contains a note-add trigger phrase and no negation
\* marker is given the intent NOTES, whatever stands before or after the phrase.
C5_TriggerGivesNotes ==
    RouterReturned =>
        LET t == Normalize(call.arg.transcript)
        IN  ((\E k \in DOMAIN NOTE_TRIGGERS : ContainsPhrase(t, NOTE_TRIGGERS[k]))
                /\ ~WordSearch(t, NEGATION))
            => call.ret.intent = "NOTES"

INTENTS == {"NOTES", "NOTES_LIST", "CALC", "SEARCH", "ANSWER"}

\* the negation markers as the cascade is stated
STATED_NEGATION == <<"don't", "do not", "never", "no">>

\* the phrase w stands in t at position i as whole words: where w begins or
\* ends with a word character, no word character of t touches it
PhraseAt(t, i, w) ==
    /\ MatchAt(t, i, w)
    /\ At(w, 1) \in WordChars => (i = 1 \/ At(t, i - 1) \notin WordChars)
    /\ At(w, Len(w)) \in WordChars =>
          (i + Len(w) > Len(t) \/ At(t, i + Len(w)) \notin WordChars)

\* one of the phrases stands in t
HasPhrase(t, alts) == \E k \in DOMAIN alts : \E i \in 1 .. Len(t) : PhraseAt(t, i, alts[k])

\* the ordered cascade on a normalized transcript, first match winning, with
\* neg the negation markers
Cascade(t, neg) ==
    IF t = "" THEN "ANSWER"
    ELSE IF HasPhrase(t, neg) THEN "ANSWER"
    ELSE IF HasPhrase(t, NOTE_TRIGGERS) THEN "NOTES"
    ELSE IF HasPhrase(t, LIST_TRIGGERS) THEN "NOTES_LIST"
    ELSE IF HasPhrase(t, CALC_TRIGGERS) \/ (DigitTokenSearch(t) /\ OperatorSearch(t))
         THEN "CALC"
    ELSE IF HasPhrase(t, SEARCH_TRIGGERS) THEN "SEARCH"
    ELSE "ANSWER"

\* C12: router always returns one of the five intents, and the one the ordered
\* cascade gives: ANSWER for an empty transcript or one with a negation marker
\* (don't, do not, never, no), else NOTES, NOTES_LIST, CALC, SEARCH by the first
\* rule that matches, else ANSWER.
C12_FollowsCascade ==
    RouterReturned =>
        /\ call.ret.intent \in INTENTS
        /\ call.ret.intent = Cascade(Normalize(call.arg.transcript), STATED_NEGATION)

----------------------------------------------------------------------------
(* Claims about the note store, under SpecNotes *)

\* the trimmed non-empty texts of the add_note calls among the first n calls
RECURSIVE Added(_)
Added(n) ==
    IF n = 0 THEN <<>>
    ELSE IF log[n].fn = "add_note" /\ Strip(log[n].arg) # ""
         THEN Append(Added(n - 1), Strip(log[n].arg))
         ELSE Added(n - 1)

\* C6: after any sequence of add_note calls from an empty store, list_notes
\* returns the trimmed non-empty texts in call order, count is their number and
\* the length of notes, and the store itself holds exactly those texts (nothing
\* removed or reordered).
C6_ListMatchesAdds ==
    /\ notes = Added(Len(log))
    /\ \A n \in DOMAIN log :
          log[n].fn = "list_notes" =>
              /\ log[n].ret.notes = Added(n)
              /\ log[n].ret.count = Len(Added(n))
              /\ log[n].ret.count = Len(log[n].ret.notes)

\* a list_notes taken after a blank add and two non-blank adds
C6_Witness ==
    /\ Len(log) = 4
    /\ log[4].fn = "list_notes"
    /\ log[4].ret.count = 2
    /\ \E n \in 1 .. 3 : log[n].fn = "add_note" /\ Strip(log[n].arg) = ""
    /\ \E n \in 1 .. 3 : log[n].fn = "add_note" /\ log[n].arg # Strip(log[n].arg)
                            /\ Strip(log[n].arg) # ""

----------------------------------------------------------------------------
(* Claims about calc and _replace_word_operators, under SpecCalc *)

CalcReturned == call.fn = "calc" /\ Returned
NormalizerReturned == call.fn = "_replace_word_operators" /\ Returned

INVALID_CHARACTERS == [res |-> [error |-> "invalid characters"], code |-> 400]

\* the first words of the operator phrases of _WORD_OPERATORS
OperatorWords == {"plus", "minus", "over", "divided", "divide", "times", "multiplied",
                  "multiply", "modulo", "mod", "power", "to", "raised"}

\* an input like "rm -rf /": lower-case words that are neither number words nor
\* operator words, with stray operator symbols, and no digit
NonArithmetic(e) ==
    /\ CharsOf(e) \subseteq LowerChars \cup {" ", "+", "-", "*", "/", "%"}
    /\ CharsOf(e) \cap LowerChars # {}
    /\ LET words == Split(ReplaceChars(e, {"+", "-", "*", "/", "%"}, " "))
       IN  \A i \in DOMAIN words : words[i] \notin ALL_NUMBER_WORDS \cup OperatorWords

\* C9: calc of a non-arithmetic input such as "rm -rf /" returns exactly
\* ({"error": "invalid characters"}, 400).
C9_RejectedAsInvalidCharacters ==
    (CalcReturned /\ NonArithmetic(call.arg)) => call.ret = INVALID_CHARACTERS

\* C10 as claimed: the normalizer's output is made only of the allowed
\* characters (digits, + - * / % ( ) . and spaces).
C10_OnlyAllowed ==
    NormalizerReturned => CharsOf(call.ret) \subseteq ALLOWED

\* C10 as amended: the normalizer's output holds no ASCII letter and none of
\* ? ! , . ' ; and an output with a character outside the allowed set, which
\* the normalizer lets through, is rejected by calc as invalid characters.
C10_NoLettersAndCalcRejects ==
    /\ NormalizerReturned =>
          CharsOf(call.ret) \cap (LowerChars \cup CharsOf(UPPER) \cup {"?", "!", ",", ".", "'"}) = {}
    /\ (CalcReturned /\ ~(CharsOf(replace_word_operators(Strip(call.arg))) \subseteq ALLOWED))
          => call.ret = INVALID_CHARACTERS

\* an input with letters whose output keeps a character outside the allowed set
C10_Witness ==
    /\ NormalizerReturned
    /\ CharsOf(call.arg) \cap LowerChars # {}
    /\ call.ret # ""
    /\ ~(CharsOf(call.ret) \subseteq ALLOWED)

----------------------------------------------------------------------------
(* Claims about tts_to_wav_bytes, under SpecTtsFair *)

NetworkFailure(i) == call.sent[i].outcome.kind = "exception"
NotOk(i) == call.sent[i].outcome.kind = "response" /\ ~call.sent[i].outcome.ok

\* a call with the default retries = 1: at most two requests, the second only
\* after a network failure of the first and one backoff; a second network
\* failure and any response that is not ok end the call with RuntimeError, which
\* the endpoint answers with 503; the call ends with bytes or RuntimeError only
C13_Safety ==
    call.retries = 1 =>
        /\ Len(call.sent) <= 2
        /\ Len(call.sent) = 2 => (NetworkFailure(1) /\ call.slept = <<5>>)
        /\ (call.pc = "post" /\ call.attempt = 1) => (NetworkFailure(1) /\ call.slept = <<5>>)
        /\ (TtsDone /\ Len(call.sent) >= 1 /\ NetworkFailure(1)) => Len(call.sent) = 2
        /\ (Len(call.sent) = 2 /\ NetworkFailure(2)) =>
              (TtsDone /\ call.ret.kind = "RuntimeError" /\ call.api.status = 503)
        /\ \A i \in DOMAIN call.sent :
              NotOk(i) => /\ i = Len(call.sent)
                          /\ TtsDone
                          /\ call.ret.kind = "RuntimeError"
                          /\ call.api.status = 503
        /\ TtsDone => call.ret.kind \in {"bytes", "RuntimeError"}
        /\ (TtsDone /\ call.ret.kind = "bytes") =>
              /\ call.sent # <<>>
              /\ call.sent[Len(call.sent)].outcome.kind = "response"
              /\ call.sent[Len(call.sent)].outcome.ok

\* C13: tts_to_wav_bytes with retries = 1 sends at most two requests, retries
\* exactly once, after a backoff, and only after a network failure, raises
\* RuntimeError (503 at the API) after a second network failure or at once after
\* a response that is not ok, and always ends, with audio bytes or RuntimeError.
C13_OneRetryThenFail == [](C13_Safety) /\ <>TtsDone

\* a call that failed twice on the network, with one backoff in between, and
\* was answered with 503
C13_Witness ==
    /\ call.fn = "tts"
    /\ call.retries = 1
    /\ TtsDone
    /\ Len(call.sent) = 2
    /\ NetworkFailure(1)
    /\ NetworkFailure(2)
    /\ call.slept = <<5>>
    /\ call.ret.kind = "RuntimeError"
    /\ call.api.status = 503

----------------------------------------------------------------------------
(* Claims about concurrent calls of the note store, under SpecThreads *)

\* the thread t has returned from an add_note that appended a note
AddedNote(t) ==
    Thread(t).fn = "add_note" /\ Thread(t).pc = "done" /\ "at" \in DOMAIN Thread(t)

\* C14: with the steps of concurrent add_note and list_notes calls interleaved,
\* every add_note returns the size of the store right after its own append, so
\* the adds that appended return different counts, and every list_notes returns
\* a count equal to the length of the notes it returns.
C14_AppendAndCountAtomic ==
    /\ \A t \in THREADS : AddedNote(t) => Thread(t).ret.count = Thread(t).at
    /\ \A t, u \in THREADS :
          (t # u /\ AddedNote(t) /\ AddedNote(u)) => Thread(t).ret.count # Thread(u).ret.count
    /\ \A t \in THREADS :
          (Thread(t).fn = "list_notes" /\ Thread(t).pc = "done")
              => Thread(t).ret.count = Len(Thread(t).ret.notes)

=============================================================================
